---- MODULE Spec2Model ----
(***************************************************************************)
(* A model of BBB/BBBP.PY: a straight-line script that loads a table of    *)
(* SMILES strings and binary labels, computes five RDKit descriptors per   *)
(* molecule, assembles X and y, makes a stratified train/test split, tunes *)
(* a random forest by grid search, evaluates it and compares it with two   *)
(* baselines.  Every statement of the script that changes state is one     *)
(* action; pc names the statement that runs next.  The library calls       *)
(* (pandas, RDKit, scikit-learn) are modelled by what they do at the call  *)
(* site, with the call's arguments as written in the script.               *)
(***************************************************************************)
EXTENDS Integers, Sequences, FiniteSets, TLC

VARIABLES
    pc,           \* the statement that runs next; "done" or "failed" at the end
    err,          \* the exception that ended the run, "none" while it runs
    csv,          \* the content of BBBP.csv
    df, features_df, X, y,
    calls,        \* how many times compute_descriptors has been called
    X_train, X_test, y_train, y_test,
    oracle,       \* how the classifiers behave on this data (fixed by random_state)
    estimators,   \* the estimator objects: id -> hyperparameters and fitted state
    grid_search,  \* the GridSearchCV object
    best_model,   \* line 79: a reference to an estimator object
    y_pred, cm,
    models, clf, pred, acc,
    gs_next, gs_running, gs_out   \* inside GridSearchCV.fit: the worker pool

prepVars == <<csv, df, features_df, X, y, calls>>
splitVars == <<X_train, X_test, y_train, y_test>>
poolVars == <<gs_next, gs_running, gs_out>>
trainVars == <<oracle, estimators, grid_search, best_model>>
evalVars == <<y_pred, cm>>
compareVars == <<models, clf, pred, acc>>

(***************************************************************************)
(* Bounds of the model.                                                    *)
(***************************************************************************)
\* Longest input table whose rows are drawn freely (any identifier, any label).
MaxRows == 3

(***************************************************************************)
(* Values.                                                                 *)
(***************************************************************************)
\* pandas' missing value in a string column (an empty CSV cell).
NaN == "NaN"
\* pandas' missing value in a numeric column.
NaNNum == -1
\* Python's None, as the value compute_descriptors returns: encoded as the
\* empty tuple, which no descriptor list (length 5) equals.
None == <<>>

\* Identifier strings that RDKit parses, and some it does not.
ValidSmiles == {"CCO", "c1ccccc1"}
InvalidSmiles == {"C(("}
SmilesValues == ValidSmiles \cup InvalidSmiles \cup {NaN}
Labels == {0, 1}

\* The exception RDKit's binding raises when handed something that is not a
\* string (a float NaN); nothing in the script catches it.
Raised == <<"ArgumentError", "MolFromSmiles">>

\* Variant: a parser that accepts every string.
MolFromSmiles_lenient(smiles) ==
    IF smiles = NaN THEN Raised ELSE <<smiles>>

\* Variant: a parser that raises on a string it cannot parse.
MolFromSmiles_raising(smiles) ==
    IF smiles \in ValidSmiles THEN <<smiles>> ELSE Raised

\* Chem.MolFromSmiles: the parsed molecule (named by its string), or None,
\* not an exception, for a string that is not a valid encoding.
MolFromSmiles(smiles) ==
    IF smiles = NaN THEN Raised
    ELSE IF smiles \in ValidSmiles THEN <<smiles>> ELSE None

\* Descriptors.* of a parsed molecule, rounded to integers (ethanol: 46.07,
\* -0.00, 1, 1, 20.23; any other molecule as benzene: 78.11, 1.69, 0, 0, 0.0).
MolWt(mol) == IF mol[1] = "CCO" THEN 46 ELSE 78
MolLogP(mol) == IF mol[1] = "CCO" THEN 0 ELSE 2
NumHDonors(mol) == IF mol[1] = "CCO" THEN 1 ELSE 0
NumHAcceptors(mol) == IF mol[1] = "CCO" THEN 1 ELSE 0
TPSA(mol) == IF mol[1] = "CCO" THEN 20 ELSE 0

\* Variant: the first two descriptors listed in the other order.
compute_descriptors_swapped(smiles) ==
    LET mol == MolFromSmiles(smiles)
    IN  IF mol = Raised THEN Raised
        ELSE IF mol = None THEN None
        ELSE <<MolLogP(mol), MolWt(mol), NumHDonors(mol), NumHAcceptors(mol), TPSA(mol)>>

\* lines 19-29
compute_descriptors(smiles) ==
    LET mol == MolFromSmiles(smiles)
    IN  IF mol = Raised THEN Raised
        ELSE IF mol = None THEN None
        ELSE <<MolWt(mol), MolLogP(mol), NumHDonors(mol), NumHAcceptors(mol), TPSA(mol)>>

descriptor_names == <<"MolWt", "MolLogP", "NumHDonors", "NumHAcceptors", "TPSA">>

(***************************************************************************)
(* Data frames: a set of column names and a sequence of rows; a row is a   *)
(* function on the columns and "index", its pandas index label.            *)
(***************************************************************************)
Range(s) == {s[i] : i \in DOMAIN s}

\* The rows a file with the columns cols can hold.
CsvRows(cols) ==
    IF cols = {"smiles", "p_np"}
    THEN {[smiles |-> s, p_np |-> l] : s \in SmilesValues, l \in Labels}
    ELSE IF cols = {"smiles"} THEN {[smiles |-> s] : s \in SmilesValues}
    ELSE IF cols = {"p_np"} THEN {[p_np |-> l] : l \in Labels}
    ELSE {[c \in {} |-> 0]}

SeqsUpTo(S, n) == UNION {[1..k -> S] : k \in 0..n}

\* The input files: every table of at most MaxRows rows over every choice of
\* which of the two required columns the file has.
FreeTables ==
    {[columns |-> cols, rows |-> rs] :
        cols \in SUBSET {"smiles", "p_np"}, rs \in {<<>>}} \cup
    UNION {{[columns |-> cols, rows |-> rs] : rs \in SeqsUpTo(CsvRows(cols), MaxRows) \ {<<>>}} :
        cols \in SUBSET {"smiles", "p_np"}}

\* Longest input table of the second family: every identifier parses, and the
\* labels are n1 ones among n rows, in a block at the end or spread evenly.
MaxClean == 9

LabelPattern(n, n1, spread) ==
    LET m == IF n1 > n THEN n ELSE n1
    IN  [i \in 1..n |->
            IF spread THEN (IF (i * m) \div n > ((i - 1) * m) \div n THEN 1 ELSE 0)
            ELSE (IF i > n - m THEN 1 ELSE 0)]

CleanTables ==
    {[columns |-> {"smiles", "p_np"},
      rows |-> [i \in 1..n |->
                  [smiles |-> IF i % 2 = 0 THEN "CCO" ELSE "c1ccccc1",
                   p_np |-> LabelPattern(n, n1, spread)[i]]]] :
        n \in (MaxRows + 1)..MaxClean, n1 \in 0..MaxClean, spread \in BOOLEAN}


WithField(r, c, v) == [k \in DOMAIN r \cup {c} |-> IF k = c THEN v ELSE r[k]]
WithoutField(r, c) == [k \in DOMAIN r \ {c} |-> r[k]]

\* The missing value pandas holds in a cell of column c.
Missing(c) == IF c = "smiles" THEN NaN ELSE IF c = "features" THEN None ELSE NaNNum

\* df.dropna(subset=[c]): the rows whose column c is not missing, index kept.
DropNa(frame, c) ==
    [columns |-> frame.columns,
     rows |-> SelectSeq(frame.rows, LAMBDA r : r[c] # Missing(c))]

\* df[c] = values: a new column, row i getting values[i].
Assign(frame, c, values) ==
    [columns |-> frame.columns \cup {c},
     rows |-> [i \in DOMAIN frame.rows |-> WithField(frame.rows[i], c, values[i])]]

\* Variant: the index is left as the filters left it.
reset_index_kept(frame) == frame

\* df.reset_index(drop=True): the same rows, labelled 0, 1, ... in order.
reset_index(frame) ==
    [columns |-> frame.columns,
     rows |-> [i \in DOMAIN frame.rows |-> WithField(frame.rows[i], "index", i - 1)]]

IndexOf(frame) == [i \in DOMAIN frame.rows |-> frame.rows[i]["index"]]

\* The row of frame labelled l (all cells missing when it has none).
RowAt(frame, l) ==
    IF \E i \in DOMAIN frame.rows : frame.rows[i]["index"] = l
    THEN frame.rows[CHOOSE i \in DOMAIN frame.rows : frame.rows[i]["index"] = l]
    ELSE [c \in frame.columns \cup {"index"} |-> IF c = "index" THEN l ELSE Missing(c)]

\* pd.concat([left, right], axis=1): rows are matched by index label (an outer
\* join: left's labels in order, then the labels only right has).
concat(left, right) ==
    LET li == IndexOf(left)
        ri == SelectSeq(IndexOf(right), LAMBDA l : l \notin Range(li))
        labels == li \o ri
    IN  [columns |-> left.columns \cup right.columns,
         rows |-> [i \in DOMAIN labels |->
                    LET lr == RowAt(left, labels[i])
                        rr == RowAt(right, labels[i])
                    IN  [c \in left.columns \cup right.columns \cup {"index"} |->
                            IF c \in DOMAIN rr /\ c # "index" THEN rr[c] ELSE
                            IF c = "index" THEN labels[i] ELSE lr[c]]]]

\* pd.DataFrame(lists, columns=names): row i holds lists[i], cell k under names[k].
DataFrame(lists, names) ==
    [columns |-> Range(names),
     rows |-> [i \in DOMAIN lists |->
                [c \in Range(names) \cup {"index"} |->
                    IF c = "index" THEN i - 1
                    ELSE lists[i][CHOOSE k \in DOMAIN names : names[k] = c]]]]

\* df[names]: the named columns, rows and index as they are.
Project(frame, names) ==
    [columns |-> Range(names),
     rows |-> [i \in DOMAIN frame.rows |->
                [c \in Range(names) \cup {"index"} |-> frame.rows[i][c]]]]

EmptyFrame == [columns |-> {}, rows |-> <<>>]

\* pd.read_csv: the file's columns and rows, labelled 0, 1, ... in file order.
read_csv(table) ==
    [columns |-> table.columns,
     rows |-> [i \in DOMAIN table.rows |-> WithField(table.rows[i], "index", i - 1)]]

\* df[df[c]]: the rows whose boolean column c is true, index kept.
BooleanMask(frame, c) ==
    [columns |-> frame.columns, rows |-> SelectSeq(frame.rows, LAMBDA r : r[c])]

\* df.drop(columns=[c])
DropColumn(frame, c) ==
    [columns |-> frame.columns \ {c},
     rows |-> [i \in DOMAIN frame.rows |-> WithoutField(frame.rows[i], c)]]

\* df[c].tolist(): the cells of column c in row order.
ToList(frame, c) == [i \in DOMAIN frame.rows |-> frame.rows[i][c]]

afterPrep == <<splitVars, trainVars, evalVars, compareVars, poolVars>>

(***************************************************************************)
(* scikit-learn: the split.                                                *)
(***************************************************************************)
RECURSIVE SumOver(_, _)
SumOver(f, S) == IF S = {} THEN 0 ELSE LET k == CHOOSE k \in S : TRUE IN f[k] + SumOver(f, S \ {k})

\* How many of the positions S carry the label k.
Count(lab, S, k) == Cardinality({i \in S : lab[i] = k})

ClassCounts(lab, S) == [k \in {lab[i] : i \in S} |-> Count(lab, S, k)]

\* test_size=0.2: n_test = ceil(0.2 n), n_train = n - n_test.
NTest(n) == (n + 4) \div 5
NTrain(n) == n - NTest(n)

\* sklearn.utils._approximate_mode: n_draws draws spread over the classes in
\* proportion to their counts; the draws left after rounding down go to the
\* classes with the largest remainders, ties broken by the random state.
approximate_mode(counts, n_draws) ==
    LET C == DOMAIN counts
        N == SumOver(counts, C)
        floored == [k \in C |-> (counts[k] * n_draws) \div N]
        rem == [k \in C |-> (counts[k] * n_draws) % N]
        need == n_draws - SumOver(floored, C)
    IN  {[k \in C |-> floored[k] + IF k \in S THEN 1 ELSE 0] :
            S \in {S \in SUBSET C : /\ Cardinality(S) = need
                                    /\ \A k \in S, j \in C \ S : rem[k] >= rem[j]}}

\* What makes train_test_split(..., test_size=0.2, stratify=y) raise ValueError.
SplitFails(labels) ==
    LET n == Len(labels)
        counts == ClassCounts(labels, DOMAIN labels)
    IN  \/ n = 0
        \/ NTrain(n) = 0
        \/ \E k \in DOMAIN counts : counts[k] < 2
        \/ NTrain(n) < Cardinality(DOMAIN counts)
        \/ NTest(n) < Cardinality(DOMAIN counts)

\* Variant: a split of the right sizes that ignores the labels.
StratifiedSplits_unstratified(labels) ==
    {[train |-> DOMAIN labels \ T, test |-> T] :
        T \in {T \in SUBSET DOMAIN labels : Cardinality(T) = NTest(Len(labels))}}

\* StratifiedShuffleSplit: the (train, test) pairs of row positions the split
\* can return: per class, approximate_mode's share of the train rows, then of
\* the test rows from what is left; which rows is up to the random state.
StratifiedSplits(labels) ==
    LET n == Len(labels)
        all == DOMAIN labels
        counts == ClassCounts(labels, all)
    IN  UNION {
          LET left == [k \in DOMAIN counts |-> counts[k] - n_i[k]]
          IN  UNION {
                UNION {
                    {[train |-> T, test |-> U] :
                        U \in {U \in SUBSET (all \ T) :
                                \A k \in DOMAIN counts : Count(labels, U, k) = t_i[k]}}
                    : T \in {T \in SUBSET all :
                                \A k \in DOMAIN counts : Count(labels, T, k) = n_i[k]}}
                : t_i \in approximate_mode(left, NTest(n))}
          : n_i \in approximate_mode(counts, NTrain(n))}

(***************************************************************************)
(* scikit-learn: estimators and the grid search.                           *)
(***************************************************************************)
NoRef == <<"none", 0>>
RfBase == <<"RandomForestClassifier", 0>>
BestEstimator == <<"best_estimator_", 0>>
LogReg == <<"LogisticRegression", 0>>
GradBoost == <<"GradientBoostingClassifier", 0>>

NoEstimators == <<>>
NoAcc == [correct |-> 0, total |-> 0]
NoParams == 0

\* A new, unfitted estimator object of a family with hyperparameters params
\* (a candidate of the grid, or NoParams for the constructor's defaults).
NewEstimator(family, params) ==
    [family |-> family, params |-> params, fits |-> 0, trained_on |-> {}, classes |-> {}]

\* estimator.fit(X_train, y_train): the learned state replaces what was there.
\* With a fixed random_state it is a function of the hyperparameters and data.
Fitted(e, rows, labels) ==
    [e EXCEPT !.fits = @ + 1, !.trained_on = rows, !.classes = {labels[i] : i \in rows}]

\* lines 61-67.  max_depth None is written 0.
param_grid ==
    [n_estimators |-> <<100, 200>>,
     max_depth |-> <<0, 10, 20>>,
     min_samples_split |-> <<2, 5>>,
     min_samples_leaf |-> <<1, 2>>,
     max_features |-> <<"sqrt", "log2">>]

\* line 72
cv == 5

NumCandidates ==
    Len(param_grid.n_estimators) * Len(param_grid.max_depth) * Len(param_grid.min_samples_split)
        * Len(param_grid.min_samples_leaf) * Len(param_grid.max_features)

\* ParameterGrid(param_grid)[c - 1]: the keys in sorted order, the last one
\* (n_estimators) changing fastest.
ParameterGrid(c) ==
    LET k0 == c - 1
        ne == Len(param_grid.n_estimators)
        ns == Len(param_grid.min_samples_split)
        nl == Len(param_grid.min_samples_leaf)
        nf == Len(param_grid.max_features)
        nd == Len(param_grid.max_depth)
    IN  [n_estimators |-> param_grid.n_estimators[(k0 % ne) + 1],
         min_samples_split |-> param_grid.min_samples_split[((k0 \div ne) % ns) + 1],
         min_samples_leaf |-> param_grid.min_samples_leaf[((k0 \div (ne * ns)) % nl) + 1],
         max_features |-> param_grid.max_features[((k0 \div (ne * ns * nl)) % nf) + 1],
         max_depth |-> param_grid.max_depth[((k0 \div (ne * ns * nl * nf)) % nd) + 1]]

\* Fold accuracies are multiples of 1/AccScale.
AccScale == 2

\* The behaviours of the classifier family: under oracle o (a candidate, or 0
\* for none) candidate o classifies every validation fold perfectly; every
\* other candidate's fold accuracy follows a fixed pattern below 1 in which
\* many candidates tie.
AllOracles == 0..NumCandidates

\* The behaviours the script is run under: no perfect candidate (a tie for the
\* best), and the first, a middle and the last candidate perfect.
Oracles == {0, 1, NumCandidates \div 2, NumCandidates}

\* The accuracy (in 1/AccScale) of candidate c fitted on the training part of
\* fold f and scored on its validation part.
FoldAccuracy(o, c, f) == IF c = o THEN AccScale ELSE (c + f) % AccScale

RECURSIVE SeqSum(_)
SeqSum(s) == IF s = <<>> THEN 0 ELSE s[1] + SeqSum(Tail(s))

\* cv_results_: per candidate its parameters, its cv fold scores and their sum
\* (the mean, times cv).
CvResults(o) ==
    [c \in 1..NumCandidates |->
        LET scores == [f \in 1..cv |-> FoldAccuracy(o, c, f)]
        IN  [params |-> ParameterGrid(c), split_test_score |-> scores,
             mean_test_score |-> SeqSum(scores)]]

\* Variant: the ranking read from the wrong end.
BestIndex_worst(results) ==
    CHOOSE b \in DOMAIN results :
        /\ \A c \in DOMAIN results : results[c].mean_test_score >= results[b].mean_test_score
        /\ \A c \in DOMAIN results :
              results[c].mean_test_score = results[b].mean_test_score => b <= c

\* best_index_: rank 1 by mean test score, the first such candidate.
BestIndex(results) ==
    CHOOSE b \in DOMAIN results :
        /\ \A c \in DOMAIN results : results[c].mean_test_score <= results[b].mean_test_score
        /\ \A c \in DOMAIN results :
              results[c].mean_test_score = results[b].mean_test_score => b <= c

\* What makes GridSearchCV.fit raise ValueError before any fit: StratifiedKFold
\* needs cv samples, and cv members in at least one class.
CvFails(rows, labels) ==
    \/ Cardinality(rows) < cv
    \/ \A k \in {labels[i] : i \in rows} : Count(labels, rows, k) < cv

NewGridSearch ==
    [estimator |-> NoRef, n_jobs |-> 0, fitted |-> FALSE, cv_data |-> {},
     cv_results |-> <<>>, best_index |-> 0, best_estimator |-> NoRef]

\* sklearn.metrics.confusion_matrix(y_true, y_pred): a count for every pair of
\* labels that occur in either vector.
\* Variant: only the labels of y_true get a row and a column.
confusion_matrix_true_labels_only(y_true, predicted) ==
    LET labels == Range(y_true)
    IN  [a \in labels |-> [p \in labels |->
            Cardinality({i \in DOMAIN y_true : y_true[i] = a /\ predicted[i] = p})]]

confusion_matrix(y_true, predicted) ==
    LET labels == Range(y_true) \cup Range(predicted)
    IN  [a \in labels |-> [p \in labels |->
            Cardinality({i \in DOMAIN y_true : y_true[i] = a /\ predicted[i] = p})]]

\* accuracy_score(y_true, y_pred), as the matches and the total.
accuracy_score(y_true, predicted) ==
    [correct |-> Cardinality({i \in DOMAIN y_true : y_true[i] = predicted[i]}),
     total |-> Cardinality(DOMAIN y_true)]

\* line 35: lambda x: Chem.MolFromSmiles(x) is not None
IsValidSmiles(x) == MolFromSmiles(x) # None

\* df["smiles"].apply(compute_descriptors)
ApplyDescriptors(frame) ==
    [i \in DOMAIN frame.rows |-> compute_descriptors(frame.rows[i]["smiles"])]

\* df["smiles"].apply(lambda x: Chem.MolFromSmiles(x) is not None)
ApplyIsValid(frame) ==
    [i \in DOMAIN frame.rows |-> IsValidSmiles(frame.rows[i]["smiles"])]

\* Series.apply(f), f one of the two functions above, raises at the first row
\* on which MolFromSmiles does.
Raises(frame, src) == \E i \in DOMAIN frame.rows : MolFromSmiles(frame.rows[i][src]) = Raised
CallsMade(frame, src) ==
    IF Raises(frame, src)
    THEN CHOOSE i \in DOMAIN frame.rows :
            /\ MolFromSmiles(frame.rows[i][src]) = Raised
            /\ \A j \in 1..(i - 1) : MolFromSmiles(frame.rows[j][src]) # Raised
    ELSE Len(frame.rows)

(***************************************************************************)
(* The script, statement by statement.                                     *)
(***************************************************************************)
Init ==
    /\ pc = "read_csv"
    /\ err = "none"
    /\ csv \in FreeTables \cup CleanTables
    /\ df = EmptyFrame
    /\ features_df = EmptyFrame
    /\ X = EmptyFrame
    /\ y = <<>>
    /\ calls = 0
    /\ X_train = {} /\ X_test = {} /\ y_train = <<>> /\ y_test = <<>>
    /\ oracle = 0
    /\ estimators = NoEstimators
    /\ grid_search = NewGridSearch
    /\ best_model = NoRef
    /\ y_pred = <<>> /\ cm = <<>>
    /\ models = <<>> /\ clf = 0 /\ pred = <<>> /\ acc = NoAcc
    /\ gs_next = 0 /\ gs_running = {} /\ gs_out = <<>>

Fail(e) == pc' = "failed" /\ err' = e

\* line 15: df = pd.read_csv("BBBP.csv")
ReadCsv ==
    /\ pc = "read_csv"
    /\ df' = read_csv(csv)
    /\ pc' = "dropna_smiles"
    /\ UNCHANGED <<err, csv, features_df, X, y, calls, afterPrep>>

\* line 16: df = df.dropna(subset=['smiles'])
DropNaSmiles ==
    /\ pc = "dropna_smiles"
    /\ IF "smiles" \notin df.columns
       THEN Fail("KeyError") /\ UNCHANGED df
       ELSE df' = DropNa(df, "smiles") /\ pc' = "apply_features" /\ UNCHANGED err
    /\ UNCHANGED <<csv, features_df, X, y, calls, afterPrep>>

\* line 31: df["features"] = df["smiles"].apply(compute_descriptors)
ApplyComputeDescriptors ==
    /\ pc = "apply_features"
    /\ calls' = calls + CallsMade(df, "smiles")
    /\ IF Raises(df, "smiles")
       THEN Fail("ArgumentError") /\ UNCHANGED df
       ELSE /\ df' = Assign(df, "features", ApplyDescriptors(df))
            /\ pc' = "dropna_features"
            /\ UNCHANGED err
    /\ UNCHANGED <<csv, features_df, X, y, afterPrep>>

\* line 32: df = df.dropna(subset=["features"])
DropNaFeatures ==
    /\ pc = "dropna_features"
    /\ df' = DropNa(df, "features")
    /\ pc' = "apply_valid"
    /\ UNCHANGED <<err, csv, features_df, X, y, calls, afterPrep>>

\* line 35: df["valid_smiles"] = df["smiles"].apply(lambda x: ... is not None)
ApplyValidSmiles ==
    /\ pc = "apply_valid"
    /\ IF Raises(df, "smiles")
       THEN Fail("ArgumentError") /\ UNCHANGED df
       ELSE /\ df' = Assign(df, "valid_smiles", ApplyIsValid(df))
            /\ pc' = "filter_valid"
            /\ UNCHANGED err
    /\ UNCHANGED <<csv, features_df, X, y, calls, afterPrep>>

\* lines 36-37: df = df[df["valid_smiles"]].copy(); df.drop(columns=["valid_smiles"])
FilterValid ==
    /\ pc = "filter_valid"
    /\ df' = DropColumn(BooleanMask(df, "valid_smiles"), "valid_smiles")
    /\ pc' = "features_df"
    /\ UNCHANGED <<err, csv, features_df, X, y, calls, afterPrep>>

\* line 41: features_df = pd.DataFrame(df["features"].tolist(), columns=descriptor_names)
BuildFeaturesDf ==
    /\ pc = "features_df"
    /\ features_df' = DataFrame(ToList(df, "features"), descriptor_names)
    /\ pc' = "concat"
    /\ UNCHANGED <<err, csv, df, X, y, calls, afterPrep>>

\* line 42: df = pd.concat([df.reset_index(drop=True), features_df], axis=1)
Concat ==
    /\ pc = "concat"
    /\ df' = concat(reset_index(df), features_df)
    /\ pc' = "define_X"
    /\ UNCHANGED <<err, csv, features_df, X, y, calls, afterPrep>>

\* line 45: X = df[descriptor_names]
DefineX ==
    /\ pc = "define_X"
    /\ X' = Project(df, descriptor_names)
    /\ pc' = "define_y"
    /\ UNCHANGED <<err, csv, df, features_df, y, calls, afterPrep>>

\* line 46: y = df["p_np"]
DefineY ==
    /\ pc = "define_y"
    /\ IF "p_np" \notin df.columns
       THEN Fail("KeyError") /\ UNCHANGED y
       ELSE y' = ToList(df, "p_np") /\ pc' = "split"
            /\ UNCHANGED err
    /\ UNCHANGED <<csv, df, features_df, X, calls, afterPrep>>

(***************************************************************************)
(* Lines 55-117: split, tune, evaluate, compare.                           *)
(***************************************************************************)
\* lines 56-58: train_test_split(X, y, test_size=0.2, stratify=y, random_state=42)
TrainTestSplit ==
    /\ pc = "split"
    /\ IF SplitFails(y)
       THEN Fail("ValueError") /\ UNCHANGED splitVars
       ELSE \E s \in StratifiedSplits(y) :
                /\ X_train' = s.train
                /\ X_test' = s.test
                /\ y_train' = [i \in s.train |-> y[i]]
                /\ y_test' = [i \in s.test |-> y[i]]
                /\ pc' = "make_grid"
                /\ UNCHANGED err
    /\ UNCHANGED <<prepVars, trainVars, evalVars, compareVars, poolVars>>

\* lines 69-76: GridSearchCV(RandomForestClassifier(random_state=42), param_grid,
\* cv=5, scoring='accuracy', n_jobs=-1)
MakeGridSearch ==
    /\ pc = "make_grid"
    /\ estimators' = (RfBase :> NewEstimator("RandomForest", NoParams)) @@ estimators
    /\ grid_search' = [NewGridSearch EXCEPT !.estimator = RfBase, !.n_jobs = -1]
    /\ pc' = "fit"
    /\ UNCHANGED <<err, prepVars, splitVars, oracle, best_model, evalVars, compareVars, poolVars>>

\* Variant: the search is given the whole dataset.
FitRows_all == DOMAIN y

\* line 78: the rows handed to grid_search.fit
FitRows == X_train

\* What fit leaves in the GridSearchCV object and the estimator store once all
\* candidates are scored: the results, the best index, and best_estimator_, a
\* new estimator with the best parameters fitted on all the rows given to fit.
Refit(results) ==
    LET b == BestIndex(results)
    IN  /\ grid_search' = [grid_search EXCEPT !.fitted = TRUE, !.cv_data = FitRows,
                              !.cv_results = results, !.best_index = b,
                              !.best_estimator = BestEstimator]
        /\ estimators' = (BestEstimator :>
                            Fitted(NewEstimator("RandomForest", results[b].params),
                                   FitRows, y)) @@ estimators

\* line 78: grid_search.fit(X_train, y_train), as the caller sees it: one
\* blocking call.
GridSearchFit ==
    /\ pc = "fit"
    /\ IF CvFails(FitRows, y)
       THEN Fail("ValueError") /\ UNCHANGED trainVars
       ELSE /\ \E o \in Oracles : oracle' = o /\ Refit(CvResults(o))
            /\ pc' = "best_model"
            /\ UNCHANGED <<err, best_model>>
    /\ UNCHANGED <<prepVars, splitVars, evalVars, compareVars, poolVars>>

\* line 79: best_model = grid_search.best_estimator_
BestModel ==
    /\ pc = "best_model"
    /\ best_model' = grid_search.best_estimator
    /\ pc' = "predict"
    /\ UNCHANGED <<err, prepVars, splitVars, oracle, estimators, grid_search, evalVars,
                   compareVars, poolVars>>

\* estimator.predict(X_test): one of the classes seen in training for each row.
Predictions(ref) == [X_test -> estimators[ref].classes]

\* line 83: y_pred = best_model.predict(X_test)
Predict ==
    /\ pc = "predict"
    /\ y_pred' \in Predictions(best_model)
    /\ pc' = "confusion_matrix"
    /\ UNCHANGED <<err, prepVars, splitVars, trainVars, cm, compareVars, poolVars>>

\* line 90: cm = confusion_matrix(y_test, y_pred)
ConfusionMatrix ==
    /\ pc = "confusion_matrix"
    /\ cm' = confusion_matrix(y_test, y_pred)
    /\ pc' = "models"
    /\ UNCHANGED <<err, prepVars, splitVars, trainVars, y_pred, compareVars, poolVars>>

\* lines 106-110: the estimators the comparison loops over, in dict order.
models_dict == <<best_model, LogReg, GradBoost>>

\* lines 106-110: models = {"RandomForest": best_model, "LogisticRegression":
\* LogisticRegression(max_iter=1000), "GradientBoosting": GradientBoostingClassifier()}
MakeModels ==
    /\ pc = "models"
    /\ estimators' = (LogReg :> NewEstimator("LogisticRegression", NoParams)) @@
                     (GradBoost :> NewEstimator("GradientBoosting", NoParams)) @@ estimators
    /\ models' = models_dict
    /\ clf' = 1
    /\ pc' = "loop_fit"
    /\ UNCHANGED <<err, prepVars, splitVars, oracle, grid_search, best_model, evalVars,
                   pred, acc, poolVars>>

\* LogisticRegression and GradientBoostingClassifier refuse a single class.
FitFails(ref) ==
    /\ estimators[ref].family # "RandomForest"
    /\ Cardinality(Range(y_train)) < 2

\* line 114: clf.fit(X_train, y_train)
LoopFit ==
    /\ pc = "loop_fit"
    /\ IF FitFails(models[clf])
       THEN Fail("ValueError") /\ UNCHANGED estimators
       ELSE /\ estimators' = [estimators EXCEPT ![models[clf]] = Fitted(@, X_train, y)]
            /\ pc' = "loop_predict"
            /\ UNCHANGED err
    /\ UNCHANGED <<prepVars, splitVars, oracle, grid_search, best_model, evalVars,
                   compareVars, poolVars>>

\* line 115: pred = clf.predict(X_test).  The forest, fitted again on the same
\* rows with the same random_state, predicts what it predicted at line 83.
LoopPredict ==
    /\ pc = "loop_predict"
    /\ IF models[clf] = best_model
       THEN pred' = y_pred
       ELSE pred' \in Predictions(models[clf])
    /\ pc' = "loop_score"
    /\ UNCHANGED <<err, prepVars, splitVars, trainVars, evalVars, models, clf, acc, poolVars>>

\* lines 116-117: acc = accuracy_score(y_test, pred); print; next item or end
LoopScore ==
    /\ pc = "loop_score"
    /\ acc' = accuracy_score(y_test, pred)
    /\ IF clf < Len(models)
       THEN clf' = clf + 1 /\ pc' = "loop_fit"
       ELSE clf' = clf /\ pc' = "done"
    /\ UNCHANGED <<err, prepVars, splitVars, trainVars, evalVars, models, pred, poolVars>>

(***************************************************************************)
(* Inside line 78: GridSearchCV.fit with n_jobs=-1 hands one task per      *)
(* (candidate, fold) to a pool of workers, each task fitting and scoring   *)
(* its own clone of the estimator, and returns when all have reported.     *)
(***************************************************************************)
\* The workers n_jobs=-1 gives: one per processor of the machine.
NumWorkers == 2

NumTasks == NumCandidates * cv

\* Tasks are numbered candidate by candidate, fold by fold.
TaskCandidate(t) == ((t - 1) \div cv) + 1
TaskFold(t) == ((t - 1) % cv) + 1

\* Variant: every task works on the estimator it was given.
clone_shared(ref, t) == ref

\* sklearn.base.clone(estimator) for task t: a new unfitted object.
clone(ref, t) == <<"clone", t>>

\* Variant: the call returns once the last task has been handed out.
AllReported_dispatched == gs_next > NumTasks

\* Parallel(...)(delayed(_fit_and_score)(...) for ...) returns its list once
\* every task has been dispatched and has reported.
AllReported == gs_next > NumTasks /\ gs_running = {}

\* The behaviour of the classifiers under which the pool is followed: the last
\* candidate is the best, so a ranking of partial results would differ.
PoolOracles == {NumCandidates}

\* fit begins: the folds are checked, then the pool starts on the task list.
FitStart ==
    /\ pc = "fit"
    /\ IF CvFails(FitRows, y)
       THEN Fail("ValueError") /\ UNCHANGED <<oracle, poolVars>>
       ELSE /\ oracle' \in PoolOracles
            /\ gs_next' = 1
            /\ gs_running' = {}
            /\ gs_out' = <<>>
            /\ pc' = "fit_running"
            /\ UNCHANGED err
    /\ UNCHANGED <<prepVars, splitVars, estimators, grid_search, best_model, evalVars,
                   compareVars>>

\* The pool starts up: a free worker takes the next task and clones the
\* estimator for it.
Dispatch ==
    /\ pc = "fit_running"
    /\ gs_next <= NumTasks
    /\ Cardinality(gs_running) < NumWorkers
    /\ gs_running' = gs_running \cup
            {[task |-> gs_next, est |-> clone(grid_search.estimator, gs_next)]}
    /\ gs_next' = gs_next + 1
    /\ UNCHANGED <<pc, err, prepVars, splitVars, trainVars, evalVars, compareVars, gs_out>>

\* A worker finishes: its clone, fitted on the fold's training part, is scored
\* on the validation part and the score is reported; the worker goes on with
\* the next task of the list, if one is left.
Complete ==
    /\ pc = "fit_running"
    /\ \E r \in gs_running :
        /\ gs_out' = (r.task :> FoldAccuracy(oracle, TaskCandidate(r.task), TaskFold(r.task)))
                        @@ gs_out
        /\ IF gs_next <= NumTasks
           THEN /\ gs_running' = (gs_running \ {r}) \cup
                        {[task |-> gs_next, est |-> clone(grid_search.estimator, gs_next)]}
                /\ gs_next' = gs_next + 1
           ELSE /\ gs_running' = gs_running \ {r}
                /\ gs_next' = gs_next
    /\ UNCHANGED <<pc, err, prepVars, splitVars, trainVars, evalVars, compareVars>>

\* cv_results_ from the reported scores.
PoolResults ==
    [c \in 1..NumCandidates |->
        LET scores == [f \in 1..cv |-> gs_out[(c - 1) * cv + f]]
        IN  [params |-> ParameterGrid(c), split_test_score |-> scores,
             mean_test_score |-> SeqSum(scores)]]

\* The pool has returned: fit refuses a result list of the wrong length, else
\* ranks the candidates and refits the best one.
FitReturn ==
    /\ pc = "fit_running"
    /\ AllReported
    /\ IF DOMAIN gs_out # 1..NumTasks
       THEN Fail("ValueError") /\ UNCHANGED <<estimators, grid_search>>
       ELSE Refit(PoolResults) /\ pc' = "best_model" /\ UNCHANGED err
    /\ UNCHANGED <<prepVars, splitVars, oracle, best_model, evalVars, compareVars, poolVars>>

\* The input whose tuning the pool model follows: eight molecules, the last
\* two of them permeant.
PoolTable ==
    [columns |-> {"smiles", "p_np"},
     rows |-> [i \in 1..8 |->
                [smiles |-> IF i % 2 = 0 THEN "CCO" ELSE "c1ccccc1",
                 p_np |-> IF i > 6 THEN 1 ELSE 0]]]

\* df after lines 15-42 on a table that has the identifier column.
Assembled(table) ==
    LET d16 == DropNa(read_csv(table), "smiles")
        d32 == DropNa(Assign(d16, "features", ApplyDescriptors(d16)), "features")
        d37 == DropColumn(BooleanMask(Assign(d32, "valid_smiles", ApplyIsValid(d32)),
                                      "valid_smiles"), "valid_smiles")
    IN  concat(reset_index(d37), DataFrame(ToList(d37, "features"), descriptor_names))

\* The script about to call grid_search.fit on PoolTable, after a split that
\* put rows 6 and 8 in the test subset.
InitWorkers ==
    /\ pc = "fit"
    /\ err = "none"
    /\ csv = PoolTable
    /\ df = Assembled(csv)
    /\ features_df = DataFrame(ToList(df, "features"), descriptor_names)
    /\ X = Project(df, descriptor_names)
    /\ y = ToList(df, "p_np")
    /\ calls = Len(csv.rows)
    /\ X_train = {1, 2, 3, 4, 5, 7} /\ X_test = {6, 8}
    /\ y_train = [i \in X_train |-> y[i]] /\ y_test = [i \in X_test |-> y[i]]
    /\ oracle = 0
    /\ estimators = (RfBase :> NewEstimator("RandomForest", NoParams))
    /\ grid_search = [NewGridSearch EXCEPT !.estimator = RfBase, !.n_jobs = -1]
    /\ best_model = NoRef
    /\ y_pred = <<>> /\ cm = <<>>
    /\ models = <<>> /\ clf = 0 /\ pred = <<>> /\ acc = NoAcc
    /\ gs_next = 0 /\ gs_running = {} /\ gs_out = <<>>

vars == <<pc, err, prepVars, afterPrep>>

Next ==
    \/ ReadCsv
    \/ DropNaSmiles
    \/ ApplyComputeDescriptors
    \/ DropNaFeatures
    \/ ApplyValidSmiles
    \/ FilterValid
    \/ BuildFeaturesDf
    \/ Concat
    \/ DefineX
    \/ DefineY
    \/ TrainTestSplit
    \/ MakeGridSearch
    \/ GridSearchFit
    \/ BestModel
    \/ Predict
    \/ ConfusionMatrix
    \/ MakeModels
    \/ LoopFit
    \/ LoopPredict
    \/ LoopScore

Spec == Init /\ [][Next]_vars

NextWorkers ==
    \/ FitStart
    \/ Dispatch
    \/ Complete
    \/ FitReturn
    \/ BestModel
    \/ Predict

SpecWorkers == InitWorkers /\ [][NextWorkers]_vars

\* InitWorkers is a state of the whole script.
AtInitWorkers ==
    /\ pc = "fit" /\ csv = PoolTable /\ df = Assembled(csv)
    /\ features_df = DataFrame(ToList(df, "features"), descriptor_names)
    /\ X = Project(df, descriptor_names) /\ y = ToList(df, "p_np")
    /\ calls = Len(csv.rows) /\ X_train = {1, 2, 3, 4, 5, 7} /\ X_test = {6, 8}
    /\ y_train = [i \in X_train |-> y[i]] /\ y_test = [i \in X_test |-> y[i]]
    /\ estimators = (RfBase :> NewEstimator("RandomForest", NoParams))
    /\ grid_search = [NewGridSearch EXCEPT !.estimator = RfBase, !.n_jobs = -1]
    /\ err = "none" /\ oracle = 0 /\ best_model = NoRef /\ y_pred = <<>> /\ cm = <<>>
    /\ models = <<>> /\ clf = 0 /\ pred = <<>> /\ acc = NoAcc
    /\ gs_next = 0 /\ gs_running = {} /\ gs_out = <<>>

\* The pool's result is the result of the blocking call.
PoolAgrees == (pc = "best_model") => grid_search.cv_results = CvResults(oracle)

(***************************************************************************)
(* Properties.                                                             *)
(***************************************************************************)
Abs(a) == IF a < 0 THEN -a ELSE a

\* Line 45 has run.
XDefined == X.columns # {}

\* Line 46 has run and found the label column.
YDefined == XDefined /\ "p_np" \in csv.columns /\ pc # "define_y"

\* Line 42 has run.
Assembled42 == "MolWt" \in df.columns

\* The records of the input whose identifier is present and parses, in file order.
Parsable == SelectSeq(csv.rows, LAMBDA r : r["smiles"] \in ValidSmiles)

\* C1: once X (and y) are defined, they hold exactly the records whose
\* identifier is present and parses: no record with a missing or unparsable
\* identifier is left in df, X or y, and no cell of X is undefined.
C1_NoUnparsedRecordInXy ==
    XDefined =>
        /\ Len(X.rows) = Len(Parsable)
        /\ \A i \in DOMAIN df.rows :
              df.rows[i]["smiles"] \in ValidSmiles /\ df.rows[i]["features"] # None
        /\ \A i \in DOMAIN X.rows : \A k \in DOMAIN descriptor_names :
              X.rows[i][descriptor_names[k]] # NaNNum
        /\ YDefined => Len(y) = Len(Parsable) /\ \A i \in DOMAIN y : y[i] \in Labels

C1_Witness ==
    /\ YDefined
    /\ \E i \in DOMAIN csv.rows : csv.rows[i]["smiles"] = NaN
    /\ \E i \in DOMAIN csv.rows : csv.rows[i]["smiles"] \in InvalidSmiles
    /\ Len(X.rows) = 1

C3_StratifiedSplit ==
    (X_train # {} \/ X_test # {}) =>
        LET n == Len(y)
            ntr == Cardinality(X_train)
            nte == Cardinality(X_test)
        IN  /\ X_train \cap X_test = {}
            /\ X_train \cup X_test = DOMAIN y
            /\ 5 * nte >= n /\ 5 * (nte - 1) < n
            /\ \A i \in X_train : y_train[i] = y[i]
            /\ \A i \in X_test : y_test[i] = y[i]
            /\ \A k \in Range(y) :
                  LET a == Count(y, X_train, k)
                      b == Count(y, X_test, k)
                      c == Count(y, DOMAIN y, k)
                  IN  /\ Abs(a * nte - b * ntr) <= ntr
                      /\ Abs(a * n - c * ntr) < n
                      /\ Abs(b * n - c * nte) < n
            /\ NTest(100) = 20
            /\ approximate_mode([k \in Labels |-> 50], NTrain(100)) = {[k \in Labels |-> 40]}

C3_Witness ==
    /\ pc = "make_grid"
    /\ Len(y) = 9
    /\ Count(y, DOMAIN y, 1) = 2
    /\ Count(y, X_test, 1) = 0

\* C4: a fitted grid search holds a result for each of the 48 combinations of
\* the grid, each scored on 5 folds of the training subset and of nothing
\* else; no combination has a higher mean accuracy than the selected one,
\* whose parameters the best estimator carries.
C4_ExhaustiveGridSearch ==
    grid_search.fitted =>
        LET results == grid_search.cv_results
            b == grid_search.best_index
        IN  /\ NumCandidates = 48
            /\ DOMAIN results = 1..48
            /\ {results[c].params : c \in DOMAIN results} =
                  [n_estimators : {100, 200}, max_depth : {0, 10, 20},
                   min_samples_split : {2, 5}, min_samples_leaf : {1, 2},
                   max_features : {"sqrt", "log2"}]
            /\ \A c \in DOMAIN results : Len(results[c].split_test_score) = 5
            /\ grid_search.cv_data = X_train
            /\ grid_search.cv_data \cap X_test = {}
            /\ \A c \in DOMAIN results :
                  results[c].mean_test_score <= results[b].mean_test_score
            /\ estimators[grid_search.best_estimator].params = results[b].params
            /\ estimators[grid_search.best_estimator].trained_on = X_train
            /\ pc = "best_model" =>
                  \A o \in AllOracles :
                      LET r == CvResults(o)
                          m == r[BestIndex(r)].mean_test_score
                      IN  \A c \in DOMAIN r : r[c].mean_test_score <= m

C4_Witness ==
    /\ grid_search.fitted
    /\ grid_search.best_index = NumCandidates
    /\ pc = "predict"

\* C5 (as claimed): once the Trainer has returned the tuned model, nothing
\* fits it again: it has been fitted once, by the Trainer, and the models the
\* Comparator loops over are distinct objects.
C5_TunedModelReadOnly ==
    best_model # NoRef =>
        /\ estimators[best_model].fits = 1
        /\ \A i, j \in DOMAIN models : i # j => models[i] # models[j]

\* C6 (as claimed): a run that ends on a missing column has computed no
\* descriptor, made no split and created no estimator.
C6_AbortsBeforeAnyComputation ==
    err = "KeyError" => calls = 0 /\ X_train = {} /\ DOMAIN estimators = {}

\* Line 90 has run.
CmDefined ==
    \/ pc \in {"models", "loop_fit", "loop_predict", "loop_score", "done"}
    \/ pc = "failed" /\ Len(models) > 0

\* C7: the cells of the confusion matrix sum to the size of the test subset,
\* whatever the model predicted.
C7_ConfusionMatrixTotal ==
    CmDefined =>
        SumOver([a \in DOMAIN cm |-> SumOver(cm[a], DOMAIN cm[a])], DOMAIN cm)
            = Cardinality(X_test)

C7_Witness ==
    /\ pc = "models"
    /\ \E i \in X_test : y_pred[i] \notin Range(y_test)

\* C8: every row of X has exactly the five descriptor columns, and under each
\* name the numeric value of that descriptor of the row's molecule, in the
\* order in which compute_descriptors lists them.
C8_FiveDescriptorsInOrder ==
    XDefined =>
        /\ Len(descriptor_names) = 5
        /\ X.columns = {"MolWt", "MolLogP", "NumHDonors", "NumHAcceptors", "TPSA"}
        /\ \A i \in DOMAIN X.rows :
              LET mol == MolFromSmiles(df.rows[i]["smiles"])
                  row == X.rows[i]
              IN  /\ DOMAIN row = X.columns \cup {"index"}
                  /\ \A c \in X.columns : row[c] \in Nat
                  /\ row["MolWt"] = MolWt(mol)
                  /\ row["MolLogP"] = MolLogP(mol)
                  /\ row["NumHDonors"] = NumHDonors(mol)
                  /\ row["NumHAcceptors"] = NumHAcceptors(mol)
                  /\ row["TPSA"] = TPSA(mol)
                  /\ df.rows[i]["features"] =
                        [k \in DOMAIN descriptor_names |-> row[descriptor_names[k]]]

C8_Witness ==
    /\ pc = "define_y"
    /\ Len(X.rows) = 2
    /\ X.rows[1]["MolWt"] # X.rows[2]["MolWt"]

\* C9: while any evaluation is undispatched or running the caller is inside
\* fit; what follows fit sees the scores of all (candidate, fold) tasks; and
\* the estimator a running task works on is its own: not another task's, and
\* none of the caller's.
C9_PoolBarrier ==
    /\ gs_running # {} => pc = "fit_running"
    /\ (gs_next >= 1 /\ gs_next <= NumTasks) => pc = "fit_running"
    /\ (grid_search.fitted \/ best_model # NoRef \/ pc \in {"best_model", "predict", "confusion_matrix"})
          => /\ DOMAIN gs_out = 1..NumTasks
             /\ NumTasks = 240
             /\ grid_search.cv_results = CvResults(oracle)
    /\ \A r1, r2 \in gs_running : r1.task # r2.task => r1.est # r2.est
    /\ \A r \in gs_running : r.est \notin DOMAIN estimators /\ r.est # grid_search.estimator

C9_Witness ==
    /\ pc = "confusion_matrix"
    /\ DOMAIN gs_out = 1..NumTasks
    /\ gs_running = {}

\* Two tasks run at the same time, and a later task has reported before an
\* earlier one.
C9_Concurrent ==
    /\ Cardinality(gs_running) = 2
    /\ \E r \in gs_running : \E t \in DOMAIN gs_out : t > r.task

\* C10: after line 42 the rows of df are the parsable records in file order,
\* labelled 0, 1, ...: row i holds record i's identifier, its label and the
\* descriptors computed from its identifier; so do X and y.
C10_RowsAligned ==
    Assembled42 =>
        /\ Len(df.rows) = Len(Parsable)
        /\ \A i \in DOMAIN df.rows :
              /\ df.rows[i]["index"] = i - 1
              /\ df.rows[i]["smiles"] = Parsable[i]["smiles"]
              /\ "p_np" \in csv.columns => df.rows[i]["p_np"] = Parsable[i]["p_np"]
              /\ \A k \in DOMAIN descriptor_names :
                    df.rows[i][descriptor_names[k]] =
                        compute_descriptors(Parsable[i]["smiles"])[k]
        /\ XDefined =>
              \A i \in DOMAIN X.rows :
                  /\ X.rows[i]["index"] = i - 1
                  /\ \A k \in DOMAIN descriptor_names :
                        X.rows[i][descriptor_names[k]] =
                            compute_descriptors(Parsable[i]["smiles"])[k]
        /\ YDefined => \A i \in DOMAIN y : y[i] = Parsable[i]["p_np"]

C10_Witness ==
    /\ YDefined
    /\ csv.rows[1]["smiles"] \notin ValidSmiles
    /\ Len(y) = 2
    /\ y[1] # y[2]
    /\ df.rows[1]["smiles"] # df.rows[2]["smiles"]
====
